---- MODULE Spec2Model ----
(***************************************************************************)
(* pngme: the PNG chunk codec (chunk_type.rs, chunk.rs) and the command    *)
(* layer on top of it (commands.rs, main.rs).                              *)
(*                                                                         *)
(* Bytes are integers 0..255, a Vec<u8> or a slice is a sequence of bytes, *)
(* a String / &str is a sequence of Unicode scalar values (its UTF-8       *)
(* encoding is computed by Utf8Encode, its validation by String_from_utf8).*)
(* A Result is a record with a tag: "Ok" (field v), "Err" (field e) or     *)
(* "Panic" (the thread unwinds; no value is returned).                     *)
(***************************************************************************)
EXTENDS Integers, Sequences, FiniteSets, TLC

VARIABLES
    pc,          \* position of the scenario being run
    \* chunk_type.rs scenarios
    arg_via,     \* chunk type construction path: "try_from" | "from_str" | "none"
    arg_bytes,   \* the [u8; 4] handed to ChunkType::try_from
    arg_text,    \* the &str handed to ChunkType::from_str
    made,        \* Result<ChunkType, _> of the construction
    flags,       \* the five flag queries on the constructed ChunkType
    \* chunk.rs scenarios
    type_code,   \* the ChunkType handed to Chunk::new
    data,        \* the Vec<u8> handed to Chunk::new
    chunk,       \* the Chunk built by Chunk::new
    wire,        \* the byte slice handed to Chunk::try_from
    tamper,      \* what was done to the serialized bytes before parsing
    parsed,      \* Result<Chunk, _> of Chunk::try_from
    text,        \* Result<String, _> of Chunk::data_as_string
    \* commands.rs scenarios
    file,        \* the file at file_path: whether it exists, and its bytes
    stdout,      \* what the last command wrote to standard output
    status,      \* exit status of the last command (101: the process panicked)
    hist         \* the commands run so far, each with the file it started from

typeVars == <<arg_via, arg_bytes, arg_text, made, flags>>
chunkVars == <<type_code, data, chunk, wire, tamper, parsed, text>>
cmdVars == <<file, stdout, status, hist>>
vars == <<pc, typeVars, chunkVars, cmdVars>>

-----------------------------------------------------------------------------
(* Bounds of the model *)

MaxTextLen == 5
MaxDataLen == 3
MaxCmds == 2

-----------------------------------------------------------------------------
(* Machine integers and bit operations *)

\* numbers of the model stay below 2^31, so a u32 is kept as its two 16-bit halves:
\* the value is hi * 65536 + lo.
Half == 65536

U32Of(n) == [hi |-> (n \div Half) % Half, lo |-> n % Half]

RECURSIVE BitAnd(_, _)
BitAnd(a, b) ==
    IF a = 0 \/ b = 0 THEN 0
    ELSE (a % 2) * (b % 2) + 2 * BitAnd(a \div 2, b \div 2)

RECURSIVE BitXor(_, _)
BitXor(a, b) ==
    IF a = 0 THEN b
    ELSE IF b = 0 THEN a
    ELSE ((a + b) % 2) + 2 * BitXor(a \div 2, b \div 2)

RECURSIVE Shl(_, _)
Shl(a, n) == IF n = 0 THEN a ELSE Shl(2 * a, n - 1)

\* u32 addition of a small constant: the sum before wrapping, in halves
AddU32(a, n) ==
    LET lo == a.lo + n
        hi == a.hi + (lo \div Half)
    IN [overflow |-> hi >= Half, value |-> [hi |-> hi % Half, lo |-> lo % Half]]

LtU32(a, b) == a.hi < b.hi \/ (a.hi = b.hi /\ a.lo < b.lo)
GeU32(a, b) == ~LtU32(a, b)

XorU32(a, b) == [hi |-> BitXor(a.hi, b.hi), lo |-> BitXor(a.lo, b.lo)]
Shr1(a) == [hi |-> a.hi \div 2, lo |-> (a.lo \div 2) + (a.hi % 2) * 32768]
Shr8(a) == [hi |-> a.hi \div 256, lo |-> (a.lo \div 256) + (a.hi % 256) * 256]

\* u32::to_be_bytes / u32::from_be_bytes
to_be_bytes(u) == <<u.hi \div 256, u.hi % 256, u.lo \div 256, u.lo % 256>>
from_be_bytes(b) == [hi |-> b[1] * 256 + b[2], lo |-> b[3] * 256 + b[4]]

\* u64::from_be_bytes of 8 bytes, as its two 32-bit words
u64_from_be_bytes(b) ==
    [high |-> from_be_bytes(SubSeq(b, 1, 4)), low |-> from_be_bytes(SubSeq(b, 5, 8))]

\* big_len > u32::MAX.into()
ExceedsU32Max(u64) == u64.high # U32Of(0)

-----------------------------------------------------------------------------
(* Result values *)

Ok(x) == [tag |-> "Ok", v |-> x]
Err(x) == [tag |-> "Err", e |-> x]
Panic == [tag |-> "Panic"]
None == [tag |-> "None"]

BadByte(b) == [etype |-> "BadByte", val |-> b]
BadLength(n) == [etype |-> "BadLength", val |-> n]
ChunkError(msg) == [etype |-> "ChunkError", err |-> msg]
TryFromSliceError == [etype |-> "TryFromSliceError"]
FromUtf8Error == [etype |-> "FromUtf8Error"]

-----------------------------------------------------------------------------
(* str::as_bytes: the UTF-8 encoding of a string *)

Utf8EncodeChar(c) ==
    IF c < 128 THEN <<c>>
    ELSE IF c < 2048 THEN <<192 + (c \div 64), 128 + (c % 64)>>
    ELSE IF c < 65536 THEN
        <<224 + (c \div 4096), 128 + ((c \div 64) % 64), 128 + (c % 64)>>
    ELSE <<240 + (c \div 262144), 128 + ((c \div 4096) % 64),
           128 + ((c \div 64) % 64), 128 + (c % 64)>>

RECURSIVE Utf8Encode(_)
Utf8Encode(s) ==
    IF s = <<>> THEN <<>> ELSE Utf8EncodeChar(Head(s)) \o Utf8Encode(Tail(s))

-----------------------------------------------------------------------------
(* chunk_type.rs *)

is_ascii_uppercase(b) == 65 <= b /\ b <= 90
\* a range check that stops one short of 'z'
is_ascii_lowercase_short(b) == 97 <= b /\ b < 122
is_ascii_lowercase(b) == 97 <= b /\ b <= 122

ChunkType(b) == [bytes |-> b]

is_critical(t) == BitAnd(t.bytes[1], Shl(1, 5)) = 0
is_public(t) == BitAnd(t.bytes[2], Shl(1, 5)) = 0
is_reserved_bit_valid(t) == BitAnd(t.bytes[3], Shl(1, 5)) = 0
\* the masked bit compared with 1 instead of 1 << 5
is_safe_to_copy_one(t) == BitAnd(t.bytes[4], Shl(1, 5)) = 1
is_safe_to_copy(t) == BitAnd(t.bytes[4], Shl(1, 5)) = Shl(1, 5)
\* validity with the test of the reserved bit inverted
is_valid_inverted(t) == ~is_reserved_bit_valid(t)
is_valid(t) == is_reserved_bit_valid(t)

\* impl TryFrom<[u8; 4]> for ChunkType: the loop returns at the first bad byte
RECURSIVE TryFromLoop(_, _)
TryFromLoop(chunk_type, i) ==
    IF i > Len(chunk_type) THEN Ok(ChunkType(chunk_type))
    ELSE IF ~(is_ascii_uppercase(chunk_type[i]) \/ is_ascii_lowercase(chunk_type[i]))
         THEN Err(BadByte(chunk_type[i]))
         ELSE TryFromLoop(chunk_type, i + 1)

ChunkType_try_from(chunk_type) == TryFromLoop(chunk_type, 1)

\* impl FromStr for ChunkType: arr starts as [0, 0, 0, 0] and is filled in order
RECURSIVE FromStrLoop(_, _, _)
FromStrLoop(bytes, arr, i) ==
    IF i > Len(bytes) THEN Ok(ChunkType(arr))
    ELSE IF is_ascii_uppercase(bytes[i]) \/ is_ascii_lowercase(bytes[i])
         THEN FromStrLoop(bytes, [arr EXCEPT ![i] = bytes[i]], i + 1)
         ELSE Err(BadByte(bytes[i]))

ChunkType_from_str(s) ==
    LET bytes == Utf8Encode(s) IN
    IF Len(bytes) # 4 THEN Err(BadLength(Len(bytes)))
    ELSE FromStrLoop(bytes, <<0, 0, 0, 0>>, 1)

-----------------------------------------------------------------------------
(* String::from_utf8: validation of a byte sequence as UTF-8 *)

\* width of the sequence a lead byte starts, 0 when it starts none
Utf8Width(b0) ==
    IF b0 < 128 THEN 1
    ELSE IF 194 <= b0 /\ b0 <= 223 THEN 2
    ELSE IF 224 <= b0 /\ b0 <= 239 THEN 3
    ELSE IF 240 <= b0 /\ b0 <= 244 THEN 4
    ELSE 0

\* the range of the second byte excludes overlong forms, surrogates and > U+10FFFF
Utf8SecondLo(b0) == IF b0 = 224 THEN 160 ELSE IF b0 = 240 THEN 144 ELSE 128
Utf8SecondHi(b0) == IF b0 = 237 THEN 159 ELSE IF b0 = 244 THEN 143 ELSE 191

IsCont(b) == 128 <= b /\ b <= 191

Utf8Scalar(b, i, w) ==
    IF w = 1 THEN b[i]
    ELSE IF w = 2 THEN (b[i] - 192) * 64 + (b[i + 1] - 128)
    ELSE IF w = 3 THEN (b[i] - 224) * 4096 + (b[i + 1] - 128) * 64 + (b[i + 2] - 128)
    ELSE (b[i] - 240) * 262144 + (b[i + 1] - 128) * 4096
         + (b[i + 2] - 128) * 64 + (b[i + 3] - 128)

RECURSIVE Utf8DecodeFrom(_, _, _)
Utf8DecodeFrom(b, i, acc) ==
    IF i > Len(b) THEN Ok(acc)
    ELSE LET w == Utf8Width(b[i]) IN
         IF w = 0 \/ i + w - 1 > Len(b) THEN Err(FromUtf8Error)
         ELSE IF w >= 2 /\ ~(Utf8SecondLo(b[i]) <= b[i + 1] /\ b[i + 1] <= Utf8SecondHi(b[i]))
              THEN Err(FromUtf8Error)
         ELSE IF \E k \in 2..(w - 1) : ~IsCont(b[i + k])
              THEN Err(FromUtf8Error)
         ELSE Utf8DecodeFrom(b, i + w, Append(acc, Utf8Scalar(b, i, w)))

String_from_utf8(b) == Utf8DecodeFrom(b, 1, <<>>)

-----------------------------------------------------------------------------
(* crc::crc32::checksum_ieee: CRC-32, reflected polynomial 0xEDB88320 *)

CrcPoly == [hi |-> 60856, lo |-> 33568]
AllOnes == [hi |-> 65535, lo |-> 65535]

RECURSIVE CrcTableEntry(_, _)
CrcTableEntry(c, k) ==
    IF k = 0 THEN c
    ELSE CrcTableEntry(IF c.lo % 2 = 1 THEN XorU32(Shr1(c), CrcPoly) ELSE Shr1(c), k - 1)

CrcTable == [n \in 0..255 |-> CrcTableEntry(U32Of(n), 8)]

RECURSIVE CrcUpdate(_, _, _)
CrcUpdate(crc, bytes, i) ==
    IF i > Len(bytes) THEN crc
    ELSE CrcUpdate(XorU32(CrcTable[BitXor(crc.lo % 256, bytes[i])], Shr8(crc)),
                   bytes, i + 1)

checksum_ieee(bytes) == XorU32(CrcUpdate(AllOnes, bytes, 1), AllOnes)

-----------------------------------------------------------------------------
(* chunk.rs *)

Chunk(len, ty, d, c) == [length |-> len, chunk_type |-> ty, chunk_data |-> d, crc |-> c]

\* Chunk::new
Chunk_new(ty, chunk_data) ==
    Chunk(U32Of(Len(chunk_data)), ty, chunk_data, checksum_ieee(ty.bytes \o chunk_data))

\* Chunk::data_as_string: from_utf8(..).expect(..) unwinds on invalid UTF-8
data_as_string(c) ==
    LET r == String_from_utf8(c.chunk_data) IN
    IF r.tag = "Ok" THEN Ok(r.v) ELSE Panic

\* the crc written least significant byte first
as_bytes_crc_le(c) ==
    to_be_bytes(c.length) \o c.chunk_type.bytes \o c.chunk_data
    \o <<c.crc.lo % 256, c.crc.lo \div 256, c.crc.hi % 256, c.crc.hi \div 256>>

\* Chunk::as_bytes
as_bytes(c) ==
    to_be_bytes(c.length) \o c.chunk_type.bytes \o c.chunk_data \o to_be_bytes(c.crc)

\* `8 + len` on u32: with overflow checks (debug profile) an overflowing sum
\* unwinds, without them (release profile) it wraps
EightPlus(len, overflow_checks) ==
    LET s == AddU32(len, 8) IN
    IF s.overflow /\ overflow_checks THEN Panic ELSE Ok(s.value)

\* the loop of try_from: bytes at 8 <= i < 8 + len go to v, bytes at
\* i >= 8 + len go to crc_bytes
RECURSIVE SplitLoop(_, _, _, _, _)
SplitLoop(bytes, i, bound, v, crc_bytes) ==
    IF i >= Len(bytes) THEN [v |-> v, crc_bytes |-> crc_bytes]
    ELSE IF i >= 8 /\ LtU32(U32Of(i), bound)
         THEN SplitLoop(bytes, i + 1, bound, Append(v, bytes[i + 1]), crc_bytes)
    ELSE IF GeU32(U32Of(i), bound)
         THEN SplitLoop(bytes, i + 1, bound, v, Append(crc_bytes, bytes[i + 1]))
    ELSE SplitLoop(bytes, i + 1, bound, v, crc_bytes)

\* the end of try_from with the comparison of the two crcs left out
CheckCrc_unchecked(len, chunk_type_fin, chunk_type, v, crc_bytes) ==
    LET crc_fin == checksum_ieee(chunk_type \o v) IN
    IF Len(crc_bytes) # 4 THEN Err(TryFromSliceError)
    ELSE Ok(Chunk(len, chunk_type_fin, v, crc_fin))

\* the end of try_from: the crc over type and data against the leftover bytes
CheckCrc(len, chunk_type_fin, chunk_type, v, crc_bytes) ==
    LET crc_fin == checksum_ieee(chunk_type \o v) IN
    IF Len(crc_bytes) # 4 THEN Err(TryFromSliceError)
    ELSE IF crc_fin # from_be_bytes(crc_bytes)
    THEN Err(ChunkError("expected crc does not match the actual crc"))
    ELSE Ok(Chunk(len, chunk_type_fin, v, crc_fin))

\* impl TryFrom<&[u8]> for Chunk
Chunk_try_from(bytes, overflow_checks) ==
    IF Len(bytes) < 12 THEN Err(ChunkError("chunk is too short"))
    ELSE
    LET buf == SubSeq(bytes, 1, 4)
        big_len == u64_from_be_bytes(<<0, 0, 0, 0>> \o buf)
    IN
    IF ExceedsU32Max(big_len) THEN Err(ChunkError("length exceeds max size of u32"))
    ELSE
    LET len == from_be_bytes(buf)
        chunk_type == SubSeq(bytes, 5, 8)
        chunk_type_fin == ChunkType_try_from(chunk_type)
    IN
    IF chunk_type_fin.tag = "Err" THEN chunk_type_fin
    ELSE IF ~is_valid(chunk_type_fin.v) THEN Err(ChunkError("chunk type not valid"))
    ELSE
    LET bound == EightPlus(len, overflow_checks) IN
    IF bound.tag = "Panic" THEN Panic
    ELSE
    LET parts == SplitLoop(bytes, 0, bound.v, <<>>, <<>>) IN
    IF U32Of(Len(parts.v)) # len
    THEN Err(ChunkError("length does not match chunk_data length"))
    ELSE CheckCrc(len, chunk_type_fin.v, chunk_type, parts.v, parts.crc_bytes)

-----------------------------------------------------------------------------
(* png.rs: the container (signature, then chunks back to back) *)

STANDARD_HEADER == <<137, 80, 78, 71, 13, 10, 26, 10>>

Png(cs) == [chunks |-> cs]

\* impl Display for ChunkType: each byte as a char
ChunkType_to_string(t) == [i \in 1..Len(t.bytes) |-> t.bytes[i]]

\* the bytes of the frame that starts `rest`: 12 + declared length of them,
\* or all of `rest` when it holds fewer
FrameOf(rest) ==
    IF Len(rest) < 4 THEN rest
    ELSE LET len == from_be_bytes(SubSeq(rest, 1, 4)) IN
         IF len.hi > 0 \/ 12 + len.lo > Len(rest) THEN rest
         ELSE SubSeq(rest, 1, 12 + len.lo)

RECURSIVE ParseChunks(_, _, _)
ParseChunks(rest, acc, overflow_checks) ==
    IF rest = <<>> THEN Ok(Png(acc))
    ELSE LET frame == FrameOf(rest)
             c == Chunk_try_from(frame, overflow_checks)
         IN IF c.tag # "Ok" THEN c
            ELSE ParseChunks(SubSeq(rest, Len(frame) + 1, Len(rest)),
                             Append(acc, c.v), overflow_checks)

\* impl TryFrom<&[u8]> for Png
Png_try_from(bytes, overflow_checks) ==
    IF Len(bytes) < 8 \/ SubSeq(bytes, 1, 8) # STANDARD_HEADER
    THEN Err(ChunkError("bad signature"))
    ELSE ParseChunks(SubSeq(bytes, 9, Len(bytes)), <<>>, overflow_checks)

RECURSIVE ConcatFrames(_)
ConcatFrames(cs) ==
    IF cs = <<>> THEN <<>> ELSE as_bytes(Head(cs)) \o ConcatFrames(Tail(cs))

\* Png::as_bytes
Png_as_bytes(png) == STANDARD_HEADER \o ConcatFrames(png.chunks)

\* Png::append_chunk
append_chunk(png, c) == Png(Append(png.chunks, c))

Matching(png, chunk_type) ==
    {i \in 1..Len(png.chunks) :
        ChunkType_to_string(png.chunks[i].chunk_type) = chunk_type}

Min(S) == CHOOSE x \in S : \A y \in S : x <= y

\* Png::chunk_by_type: the first chunk of that type
chunk_by_type(png, chunk_type) ==
    LET m == Matching(png, chunk_type) IN
    IF m = {} THEN None ELSE [tag |-> "Some", v |-> png.chunks[Min(m)]]

\* Png::remove_first_chunk: the container without the first chunk of that type
remove_first_chunk(png, chunk_type) ==
    LET m == Matching(png, chunk_type) IN
    IF m = {} THEN png
    ELSE Png(SubSeq(png.chunks, 1, Min(m) - 1)
             \o SubSeq(png.chunks, Min(m) + 1, Len(png.chunks)))

-----------------------------------------------------------------------------
(* commands.rs: each command runs in a process of its own; an unwrap or     *)
(* expect on an error unwinds main, and the process exits with status 101   *)

PANIC_EXIT == 101

Panicked(f) == [file |-> f, stdout |-> <<>>, status |-> PANIC_EXIT]
Returned(f, out) == [file |-> f, stdout |-> out, status |-> 0]

\* fs::write
Written(bytes) == [exists |-> TRUE, bytes |-> bytes]

\* println!("{}", s)
println(s) == s \o <<10>>

encode(f, chunk_type, message, overflow_checks) ==
    IF ~f.exists THEN Panicked(f)
    ELSE
    LET image == Png_try_from(f.bytes, overflow_checks) IN
    IF image.tag # "Ok" THEN Panicked(f)
    ELSE
    LET chunk_data == Utf8Encode(message)
        actual_chunk_type == ChunkType_from_str(chunk_type)
    IN
    IF actual_chunk_type.tag # "Ok" THEN Panicked(f)
    ELSE
    LET secret_chunk == Chunk_new(actual_chunk_type.v, chunk_data) IN
    Returned(Written(Png_as_bytes(append_chunk(image.v, secret_chunk))), <<>>)

decode(f, chunk_type, overflow_checks) ==
    IF ~f.exists THEN Panicked(f)
    ELSE
    LET image == Png_try_from(f.bytes, overflow_checks) IN
    IF image.tag # "Ok" THEN Panicked(f)
    ELSE
    LET encoded_chunk == chunk_by_type(image.v, chunk_type) IN
    IF encoded_chunk.tag # "Some" THEN Panicked(f)
    ELSE
    LET s == data_as_string(encoded_chunk.v) IN
    IF s.tag # "Ok" THEN Panicked(f)
    ELSE Returned(f, println(s.v))

remove(f, chunk_type, overflow_checks) ==
    IF ~f.exists THEN Panicked(f)
    ELSE
    LET image == Png_try_from(f.bytes, overflow_checks) IN
    IF image.tag # "Ok" THEN Panicked(f)
    ELSE Returned(Written(Png_as_bytes(remove_first_chunk(image.v, chunk_type))), <<>>)

print_chunks(f, overflow_checks) ==
    IF ~f.exists THEN Panicked(f)
    ELSE
    LET image == Png_try_from(f.bytes, overflow_checks) IN
    IF image.tag # "Ok" THEN Panicked(f)
    ELSE
    LET s == String_from_utf8(Png_as_bytes(image.v)) IN
    IF s.tag # "Ok" THEN Panicked(f)
    ELSE Returned(f, println(s.v))

-----------------------------------------------------------------------------
(* Inputs of the chunk type scenarios *)

\* '@' 'A' 'Z' '[' '`' 'a' 'z' '{' : the letters and their neighbours
TypeBytes == {64, 65, 90, 91, 96, 97, 122, 123}
\* the same as characters, and U+00E9 (two bytes in UTF-8)
TypeChars == TypeBytes \cup {233}

\* the texts of the tests of chunk_type.rs:
\* "RuSt", "Rust", "ruSt", "RUSt", "RuST", "Ru1t"
NamedTexts == {<<82, 117, 83, 116>>, <<82, 117, 115, 116>>, <<114, 117, 83, 116>>,
               <<82, 85, 83, 116>>, <<82, 117, 83, 84>>, <<82, 117, 49, 116>>}

SeqsUpTo(S, n) == UNION {[1..k -> S] : k \in 0..n}

NoFlags == [critical |-> FALSE, public |-> FALSE, reserved_bit_valid |-> FALSE,
            safe_to_copy |-> FALSE, valid |-> FALSE]
NoTamper == [kind |-> "none", pos |-> 0, bit |-> 0]

IdleType ==
    /\ arg_via = "none"
    /\ arg_bytes = <<>>
    /\ arg_text = <<>>
    /\ made = None
    /\ flags = NoFlags

IdleChunk ==
    /\ type_code = None
    /\ data = <<>>
    /\ chunk = None
    /\ wire = <<>>
    /\ tamper = NoTamper
    /\ parsed = None
    /\ text = None

IdleCmd ==
    /\ file = [exists |-> FALSE, bytes |-> <<>>]
    /\ stdout = <<>>
    /\ status = 0
    /\ hist = <<>>

InitType ==
    /\ pc = "args"
    /\ \/ /\ arg_via = "try_from"
          /\ arg_bytes \in [1..4 -> TypeBytes] \cup NamedTexts
          /\ arg_text = <<>>
       \/ /\ arg_via = "from_str"
          /\ arg_bytes = <<>>
          /\ arg_text \in SeqsUpTo(TypeChars, MaxTextLen) \cup NamedTexts
    /\ made = None
    /\ flags = NoFlags
    /\ IdleChunk
    /\ IdleCmd

TryFromBytes ==
    /\ pc = "args"
    /\ arg_via = "try_from"
    /\ made' = ChunkType_try_from(arg_bytes)
    /\ pc' = "made"
    /\ UNCHANGED <<arg_via, arg_bytes, arg_text, flags, chunkVars, cmdVars>>

FromStr ==
    /\ pc = "args"
    /\ arg_via = "from_str"
    /\ made' = ChunkType_from_str(arg_text)
    /\ pc' = "made"
    /\ UNCHANGED <<arg_via, arg_bytes, arg_text, flags, chunkVars, cmdVars>>

Query ==
    /\ pc = "made"
    /\ made.tag = "Ok"
    /\ flags' = [critical |-> is_critical(made.v),
                 public |-> is_public(made.v),
                 reserved_bit_valid |-> is_reserved_bit_valid(made.v),
                 safe_to_copy |-> is_safe_to_copy(made.v),
                 valid |-> is_valid(made.v)]
    /\ pc' = "queried"
    /\ UNCHANGED <<arg_via, arg_bytes, arg_text, made, chunkVars, cmdVars>>

NextType == TryFromBytes \/ FromStr \/ Query

SpecType == InitType /\ [][NextType]_vars

Letters == (65..90) \cup (97..122)
Bit5(b) == (b \div 32) % 2

\* the bytes the construction was given
GivenBytes == IF arg_via = "try_from" THEN arg_bytes ELSE Utf8Encode(arg_text)
BadAt(b) == {i \in 1..Len(b) : b[i] \notin Letters}
FirstBad(b) == b[CHOOSE i \in BadAt(b) : \A j \in BadAt(b) : i <= j]

\* C7: try_from and from_str accept an input iff it is exactly 4 bytes, all of
\* them ASCII letters, and the ChunkType then holds exactly those bytes;
\* try_from fails with BadByte(first offending byte); from_str of a string
\* that is not 4 bytes long fails with BadLength(byte length) even when it
\* holds non-letters, and a 4-byte string with a non-letter fails with
\* BadByte.
C7_TypeConstruction ==
    pc \in {"made", "queried"} =>
        LET b == GivenBytes IN
        /\ made.tag \in {"Ok", "Err"}
        /\ made.tag = "Ok" <=> (Len(b) = 4 /\ BadAt(b) = {})
        /\ made.tag = "Ok" => (made.v.bytes = b /\ \A i \in 1..4 : made.v.bytes[i] \in Letters)
        /\ (arg_via = "from_str" /\ Len(b) # 4) => made = Err(BadLength(Len(b)))
        /\ (Len(b) = 4 /\ BadAt(b) # {}) => made = Err(BadByte(FirstBad(b)))

\* from_str was given a string of the wrong length that also holds a
\* non-letter, and answered with the length error
C7_Witness ==
    /\ pc = "made"
    /\ arg_via = "from_str"
    /\ Len(GivenBytes) = 5
    /\ BadAt(GivenBytes) # {}
    /\ made = Err(BadLength(5))

\* C8: is_critical iff bit 5 of byte 0 is clear, is_public iff bit 5 of byte 1
\* is clear, is_reserved_bit_valid iff bit 5 of byte 2 is clear,
\* is_safe_to_copy iff bit 5 of byte 3 is set, and is_valid equals
\* is_reserved_bit_valid.
C8_FlagQueries ==
    pc = "queried" =>
        /\ flags.critical <=> Bit5(made.v.bytes[1]) = 0
        /\ flags.public <=> Bit5(made.v.bytes[2]) = 0
        /\ flags.reserved_bit_valid <=> Bit5(made.v.bytes[3]) = 0
        /\ flags.safe_to_copy <=> Bit5(made.v.bytes[4]) = 1
        /\ flags.valid <=> flags.reserved_bit_valid

\* "Rust" was constructed and queried: critical, private, reserved bit
\* invalid, safe to copy, not valid
C8_Witness ==
    /\ pc = "queried"
    /\ made.v.bytes = <<82, 117, 115, 116>>
    /\ flags = [critical |-> TRUE, public |-> FALSE, reserved_bit_valid |-> FALSE,
                safe_to_copy |-> TRUE, valid |-> FALSE]

-----------------------------------------------------------------------------
(* Scenarios of chunk.rs: build a chunk, serialize it, hand the bytes        *)
(* (as written, or damaged the way untrusted input can be) to try_from       *)

\* "RuSt", "Rust" (reserved bit set), "ruSt"
TypeTexts == {<<82, 117, 83, 116>>, <<82, 117, 115, 116>>, <<114, 117, 83, 116>>}
\* 'A', and 0xC3 0xA9 (together the UTF-8 of U+00E9, apart invalid UTF-8)
DataBytes == {65, 195, 169}
\* declared lengths an untrusted frame can carry: 0, 1, 2^32 - 9, 2^32 - 8, 2^32 - 1
ForgedLengths == {<<0, 0, 0, 0>>, <<0, 0, 0, 1>>, <<255, 255, 255, 247>>,
                  <<255, 255, 255, 248>>, <<255, 255, 255, 255>>}
TrailingBytes == {0, 65}

InitChunk ==
    /\ pc = "start"
    /\ \E s \in TypeTexts :
          /\ ChunkType_from_str(s).tag = "Ok"
          /\ type_code = ChunkType_from_str(s).v
    /\ data \in SeqsUpTo(DataBytes, MaxDataLen)
    /\ chunk = None
    /\ wire = <<>>
    /\ tamper = NoTamper
    /\ parsed = None
    /\ text = None
    /\ IdleType
    /\ IdleCmd

New ==
    /\ pc = "start"
    /\ chunk' = Chunk_new(type_code, data)
    /\ pc' = "built"
    /\ UNCHANGED <<type_code, data, wire, tamper, parsed, text, typeVars, cmdVars>>

AsBytes ==
    /\ pc = "built"
    /\ wire' = as_bytes(chunk)
    /\ pc' = "wire"
    /\ UNCHANGED <<type_code, data, chunk, tamper, parsed, text, typeVars, cmdVars>>

FlipBitOf(b, k) == BitXor(b, Shl(1, k))

\* one bit of the frame is flipped in transit
FlipBit ==
    /\ pc = "wire"
    /\ tamper.kind = "none"
    /\ \E p \in 1..Len(wire), k \in 0..7 :
          /\ wire' = [wire EXCEPT ![p] = FlipBitOf(wire[p], k)]
          /\ tamper' = [kind |-> "flip", pos |-> p, bit |-> k]
    /\ UNCHANGED <<pc, type_code, data, chunk, parsed, text, typeVars, cmdVars>>

\* the frame is cut short
Truncate ==
    /\ pc = "wire"
    /\ tamper.kind = "none"
    /\ \E n \in 0..(Len(wire) - 1) :
          /\ wire' = SubSeq(wire, 1, n)
          /\ tamper' = [kind |-> "truncate", pos |-> n, bit |-> 0]
    /\ UNCHANGED <<pc, type_code, data, chunk, parsed, text, typeVars, cmdVars>>

\* a byte follows the frame
Trail ==
    /\ pc = "wire"
    /\ tamper.kind = "none"
    /\ \E b \in TrailingBytes :
          /\ wire' = Append(wire, b)
          /\ tamper' = [kind |-> "trail", pos |-> Len(wire) + 1, bit |-> 0]
    /\ UNCHANGED <<pc, type_code, data, chunk, parsed, text, typeVars, cmdVars>>

\* the length field is replaced
ForgeLength ==
    /\ pc = "wire"
    /\ tamper.kind = "none"
    /\ \E l \in ForgedLengths :
          /\ l # SubSeq(wire, 1, 4)
          /\ wire' = l \o SubSeq(wire, 5, Len(wire))
          /\ tamper' = [kind |-> "forge", pos |-> 1, bit |-> 0]
    /\ UNCHANGED <<pc, type_code, data, chunk, parsed, text, typeVars, cmdVars>>

Parse ==
    /\ pc = "wire"
    /\ \E overflow_checks \in BOOLEAN :
          parsed' = Chunk_try_from(wire, overflow_checks)
    /\ pc' = "parsed"
    /\ UNCHANGED <<type_code, data, chunk, wire, tamper, text, typeVars, cmdVars>>

DataAsStringBuilt ==
    /\ pc = "built"
    /\ text' = data_as_string(chunk)
    /\ pc' = "texted"
    /\ UNCHANGED <<type_code, data, chunk, wire, tamper, parsed, typeVars, cmdVars>>

DataAsStringParsed ==
    /\ pc = "parsed"
    /\ parsed.tag = "Ok"
    /\ text' = data_as_string(parsed.v)
    /\ pc' = "texted"
    /\ UNCHANGED <<type_code, data, chunk, wire, tamper, parsed, typeVars, cmdVars>>

NextChunk ==
    \/ New
    \/ AsBytes
    \/ FlipBit
    \/ Truncate
    \/ Trail
    \/ ForgeLength
    \/ Parse
    \/ DataAsStringBuilt
    \/ DataAsStringParsed

SpecChunk == InitChunk /\ [][NextChunk]_vars

\* the error kinds of the chunk parse
TooShort == ChunkError("chunk is too short")
InvalidTypeCode == ChunkError("chunk type not valid")
LengthMismatch == ChunkError("length does not match chunk_data length")
CrcMismatch == ChunkError("expected crc does not match the actual crc")

\* the type field of the bytes handed to the parse
WireType == SubSeq(wire, 5, 8)
WireTypeAlphabetic == BadAt(WireType) = {}
WireTypeReservedValid == Bit5(wire[7]) = 0
\* the input holds exactly 12 + declared length bytes
ExactFrame == from_be_bytes(SubSeq(wire, 1, 4)) = U32Of(Len(wire) - 12)

\* C1: for a type code of 4 ASCII letters with the reserved bit valid and any
\* data, parsing the bytes produced by serializing Chunk::new(type_code, data)
\* succeeds and yields the same length, type code, data and crc.
C1_RoundTrip ==
    (/\ pc = "parsed"
     /\ tamper.kind = "none"
     /\ BadAt(type_code.bytes) = {}
     /\ Bit5(type_code.bytes[3]) = 0)
    => /\ parsed.tag = "Ok"
       /\ parsed.v.length = chunk.length
       /\ parsed.v.chunk_type = chunk.chunk_type
       /\ parsed.v.chunk_data = chunk.chunk_data
       /\ parsed.v.crc = chunk.crc
       /\ parsed.v.chunk_type = type_code
       /\ parsed.v.chunk_data = data

\* an untouched frame with a two-byte payload was parsed back
C1_Witness ==
    /\ pc = "parsed"
    /\ tamper.kind = "none"
    /\ Len(data) = 2
    /\ parsed = Ok(chunk)

FlipInTypeOrData ==
    /\ pc = "parsed"
    /\ tamper.kind = "flip"
    /\ tamper.pos \in 5..(8 + Len(data))

\* C2 (as claimed): flipping any single bit of the type region or of the data
\* region of a serialized chunk and parsing the result always fails with
\* CrcMismatch.
C2_FlipYieldsCrcMismatch ==
    FlipInTypeOrData => parsed = Err(CrcMismatch)

\* C2 (amended): such a flip always makes the parse fail; the failure is
\* CrcMismatch exactly when the type code of the flipped frame is 4 ASCII
\* letters with the reserved bit clear, BadByte(first offending byte) when a
\* type byte is no letter, and the invalid-type-code error when the type is
\* alphabetic with the reserved bit set.
C2_FlipFails ==
    FlipInTypeOrData =>
        /\ parsed.tag = "Err"
        /\ (WireTypeAlphabetic /\ WireTypeReservedValid) => parsed.e = CrcMismatch
        /\ ~WireTypeAlphabetic => parsed.e = BadByte(FirstBad(WireType))
        /\ (WireTypeAlphabetic /\ ~WireTypeReservedValid) => parsed.e = InvalidTypeCode

\* a bit of the type region was flipped, the type stayed valid, and the
\* parse answered CrcMismatch
C2_Witness ==
    /\ FlipInTypeOrData
    /\ tamper.pos \in 5..8
    /\ parsed = Err(CrcMismatch)

\* C3: for an input of at least 12 bytes with a valid type code, the parse
\* succeeds only if the input holds exactly 12 + declared length bytes;
\* otherwise (truncated, also inside the crc field, or with trailing bytes)
\* it fails with LengthMismatch.
C3_ExactFraming ==
    (/\ pc = "parsed"
     /\ Len(wire) >= 12
     /\ WireTypeAlphabetic
     /\ WireTypeReservedValid)
    => /\ parsed.tag = "Ok" => ExactFrame
       /\ ~ExactFrame => parsed = Err(LengthMismatch)

\* C4: Chunk::new builds a chunk for every type code and data, also when the
\* reserved bit of the type code is set, while the parse rejects with the
\* invalid-type-code error every frame of at least 12 bytes whose alphabetic
\* type code has the reserved bit set, whatever its length and crc fields
\* hold; a type byte that is no letter is reported first, as BadByte.
C4_ValidityGating ==
    /\ pc # "start" =>
          /\ chunk.chunk_type = type_code
          /\ chunk.chunk_data = data
          /\ chunk.length = U32Of(Len(data))
    /\ (pc = "parsed" /\ Len(wire) >= 12) =>
          /\ (WireTypeAlphabetic /\ ~WireTypeReservedValid)
                => parsed = Err(InvalidTypeCode)
          /\ ~WireTypeAlphabetic => parsed = Err(BadByte(FirstBad(WireType)))

\* the untouched frame of a chunk built with "Rust" (reserved bit set), its
\* length and crc fields correct, was rejected as an invalid type code
C4_Witness ==
    /\ pc = "parsed"
    /\ tamper.kind = "none"
    /\ chunk.chunk_type.bytes = <<82, 117, 115, 116>>
    /\ wire = as_bytes(chunk)
    /\ parsed = Err(InvalidTypeCode)

\* C5: the parse returns a Chunk or an error value for every input; it never
\* panics, and a declared length of 2^32 - 8 or more is never accepted.
C5_ParseTotal ==
    pc = "parsed" =>
        /\ parsed.tag \in {"Ok", "Err"}
        /\ (Len(wire) >= 12 /\ AddU32(from_be_bytes(SubSeq(wire, 1, 4)), 8).overflow)
              => parsed.tag = "Err"

\* C6: data_as_string returns an error value when the data is not valid
\* UTF-8, and exactly the text when it is.
C6_DataAsText ==
    pc = "texted" =>
        /\ text.tag \in {"Ok", "Err"}
        /\ String_from_utf8(data).tag = "Ok" => text = Ok(String_from_utf8(data).v)
        /\ String_from_utf8(data).tag = "Err" => text.tag = "Err"

-----------------------------------------------------------------------------
(* Scenarios of the command line: a few commands, one after the other, on   *)
(* one file                                                                  *)

TypeOf(s) == ChunkType_from_str(s).v

\* "IHDR" with a one-byte payload, "ruSt" holding "A", "IEND"
IHDR == Chunk_new(TypeOf(<<73, 72, 68, 82>>), <<0>>)
RUST == Chunk_new(TypeOf(<<114, 117, 83, 116>>), <<65>>)
IEND == Chunk_new(TypeOf(<<73, 69, 78, 68>>), <<>>)

ChunkLists == {<<>>, <<IHDR, IEND>>, <<IHDR, RUST, IEND>>}

\* a text file (no signature), and a PNG whose last CRC byte is damaged
TextFile == <<65, 65, 65, 65, 65, 65, 65, 65, 65>>
Damaged ==
    LET b == Png_as_bytes(Png(<<IHDR, IEND>>)) IN
    [b EXCEPT ![Len(b)] = FlipBitOf(b[Len(b)], 0)]

InitFiles ==
    {[exists |-> FALSE, bytes |-> <<>>]}
    \cup {Written(Png_as_bytes(Png(cs))) : cs \in ChunkLists}
    \cup {Written(TextFile), Written(Damaged)}

\* "ruSt", "rust" (reserved bit set), "ruS" (three bytes)
CmdTypes == {<<114, 117, 83, 116>>, <<114, 117, 115, 116>>, <<114, 117, 83>>}
\* "", "h" U+00E9
Messages == {<<>>, <<104, 233>>}

InitCmd ==
    /\ pc = "shell"
    /\ file \in InitFiles
    /\ stdout = <<>>
    /\ status = 0
    /\ hist = <<>>
    /\ IdleType
    /\ IdleChunk

Ran(name, chunk_type, message, r) ==
    /\ file' = r.file
    /\ stdout' = r.stdout
    /\ status' = r.status
    /\ hist' = Append(hist, [name |-> name, chunk_type |-> chunk_type,
                             message |-> message, before |-> file,
                             after |-> r.file, status |-> r.status,
                             stdout |-> r.stdout])
    /\ UNCHANGED <<pc, typeVars, chunkVars>>

Encode ==
    /\ pc = "shell"
    /\ Len(hist) < MaxCmds
    /\ \E t \in CmdTypes, m \in Messages, overflow_checks \in BOOLEAN :
          Ran("encode", t, m, encode(file, t, m, overflow_checks))

Decode ==
    /\ pc = "shell"
    /\ Len(hist) < MaxCmds
    /\ \E t \in CmdTypes, overflow_checks \in BOOLEAN :
          Ran("decode", t, <<>>, decode(file, t, overflow_checks))

Remove ==
    /\ pc = "shell"
    /\ Len(hist) < MaxCmds
    /\ \E t \in CmdTypes, overflow_checks \in BOOLEAN :
          Ran("remove", t, <<>>, remove(file, t, overflow_checks))

PrintChunks ==
    /\ pc = "shell"
    /\ Len(hist) < MaxCmds
    /\ \E overflow_checks \in BOOLEAN :
          Ran("print", <<>>, <<>>, print_chunks(file, overflow_checks))

\* main: dispatch on the subcommand
NextCmd == Encode \/ Decode \/ Remove \/ PrintChunks

SpecCmd == InitCmd /\ [][NextCmd]_vars

\* the container parse accepts the file, whatever the build profile
Accepted(f) ==
    f.exists /\ \A overflow_checks \in BOOLEAN :
                    Png_try_from(f.bytes, overflow_checks).tag = "Ok"
ChunksOf(f) == Png_try_from(f.bytes, FALSE).v.chunks

\* hist[i] is an encode(T, M), with T accepted by from_str, run on an
\* accepted file that holds no chunk of type T
EncodeOnFresh(i) ==
    /\ hist[i].name = "encode"
    /\ ChunkType_from_str(hist[i].chunk_type).tag = "Ok"
    /\ Accepted(hist[i].before)
    /\ \A k \in 1..Len(ChunksOf(hist[i].before)) :
          ChunkType_to_string(ChunksOf(hist[i].before)[k].chunk_type)
              # hist[i].chunk_type

\* C9: from an accepted file with no chunk of type T, encode(path, T, M)
\* writes a file that the container parse accepts, holding the chunks that
\* were there, unchanged and in order, followed by the new chunk; and a
\* decode(path, T) run next prints M.
C9_EmbedThenExtract ==
    \A i \in 1..Len(hist) :
        EncodeOnFresh(i) =>
            /\ hist[i].status = 0
            /\ Accepted(hist[i].after)
            /\ ChunksOf(hist[i].after)
                 = Append(ChunksOf(hist[i].before),
                          Chunk_new(TypeOf(hist[i].chunk_type),
                                    Utf8Encode(hist[i].message)))
            /\ (/\ i < Len(hist)
                /\ hist[i + 1].name = "decode"
                /\ hist[i + 1].chunk_type = hist[i].chunk_type)
               => /\ hist[i + 1].status = 0
                  /\ hist[i + 1].stdout = println(hist[i].message)

\* C10: print(path) on a file the container parse accepts ends with exit
\* status 0 and renders the container; it ends in failure only when reading
\* or parsing the file fails.
C10_PrintSucceeds ==
    \A i \in 1..Len(hist) :
        hist[i].name = "print" =>
            /\ hist[i].status = 0 <=> Accepted(hist[i].before)
            /\ hist[i].status = 0 => hist[i].stdout # <<>>

====
